---- MODULE Spec2Model ----
(***************************************************************************)
(* Error translation and response normalisation of the HeyGen streaming    *)
(* API handlers (src/api/streaming/*.py).                                  *)
(*                                                                         *)
(* A request slot r goes idle -> awaiting -> done: the handler runs up to  *)
(* its `await heygen_client....` call, the upstream client returns or      *)
(* raises, and the handler resumes in its try body or in one except        *)
(* clause.  Strings are sequences of tokens; a token is one character or   *)
(* one literal of the source.                                              *)
(***************************************************************************)
EXTENDS Integers, Sequences, FiniteSets, TLC

\* ------------------------------------------------------------------ bounds
MaxConc == 2
Slots == 1..MaxConc

\* --------------------------------------------------------------- strings
SP == " "

Lit(s) == <<s>>

RECURSIVE LStrip(_)
LStrip(s) == IF s = <<>> THEN <<>>
             ELSE IF Head(s) = SP THEN LStrip(Tail(s)) ELSE s

RECURSIVE RStrip(_)
RStrip(s) == IF s = <<>> THEN <<>>
             ELSE IF s[Len(s)] = SP THEN RStrip(SubSeq(s, 1, Len(s) - 1)) ELSE s

\* str.strip()
Strip(s) == RStrip(LStrip(s))

\* `t in s` for strings
Contains(s, t) ==
    \E i \in 0..(Len(s) - Len(t)) : SubSeq(s, i + 1, i + Len(t)) = t

\* ------------------------------------------------- python values (tagged)
PyNone == [t |-> "none"]
PyStr(s) == [t |-> "str", s |-> s]
PyInt(i) == [t |-> "int", i |-> i]
PyBool(b) == [t |-> "bool", b |-> b]
PyDict(keys) == [t |-> "dict", keys |-> keys]

IsStr(v) == v.t = "str"
IsInt(v) == v.t = "int"
IsBool(v) == v.t = "bool"

\* dict.get(key, default) on a payload (a function from its keys)
Get(d, key, default) == IF key \in DOMAIN d THEN d[key] ELSE default

\* ------------------------------------------------------ error taxonomy
TypedClasses == {"AuthenticationError", "HeyGenAPIError", "HeyGenValidationError",
                 "NotFoundError", "RateLimitError", "ServerError",
                 "SessionNotFoundError"}

ErrorClasses == TypedClasses \cup {"ValidationError", "RuntimeError"}

\* the classes an exception of class c is an instance of, besides c
Bases(c) ==
    CASE c = "HeyGenAPIError"        -> {"Exception"}
      [] c = "AuthenticationError"   -> {"HeyGenAPIError", "Exception"}
      [] c = "HeyGenValidationError" -> {"HeyGenAPIError", "Exception"}
      [] c = "NotFoundError"         -> {"HeyGenAPIError", "Exception"}
      [] c = "SessionNotFoundError"  -> {"NotFoundError", "HeyGenAPIError", "Exception"}
      [] c = "RateLimitError"        -> {"HeyGenAPIError", "Exception"}
      [] c = "ServerError"           -> {"HeyGenAPIError", "Exception"}
      [] c = "ValidationError"       -> {"ValueError", "Exception"}
      [] OTHER                       -> {"Exception"}

IsInstance(e, classes) == e.cls \in classes \/ Bases(e.cls) \cap classes # {}

\* getattr(e, "status_code", default)
GetStatusCode(e, default) == IF e.has_status_code THEN e.status_code ELSE default

\* getattr(e, "details", {})
GetDetails(e) == IF e.has_details THEN PyDict(e.details) ELSE PyDict({})

\* ----------------------------------------------------------- responses
HTTP_200_OK == 200
HTTP_201_CREATED == 201
HTTP_400_BAD_REQUEST == 400
HTTP_401_UNAUTHORIZED == 401
HTTP_404_NOT_FOUND == 404
HTTP_422_UNPROCESSABLE_ENTITY == 422
HTTP_429_TOO_MANY_REQUESTS == 429
HTTP_500_INTERNAL_SERVER_ERROR == 500

\* raise HTTPException(status_code=..., detail=...)
HTTPException(status_code, detail) ==
    [src |-> "handler", kind |-> "error", status_code |-> status_code, body |-> detail]

\* detail=str(e)
StrDetail(s) == PyStr(s)

\* detail={"message": m}
MsgDetail(m) == [t |-> "dict", message |-> PyStr(m)]

\* detail={"message": m, "details": d}
MsgDetailsDetail(m, d) == [t |-> "dict", message |-> PyStr(m), details |-> d]

\* the handler returns a response model
Success(status_code, body) ==
    [src |-> "handler", kind |-> "success", status_code |-> status_code, body |-> body]

\* the framework rejects the request before the handler runs
RequestValidationError ==
    [src |-> "framework", kind |-> "error",
     status_code |-> HTTP_422_UNPROCESSABLE_ENTITY, body |-> [t |-> "list"]]

\* an exception that leaves the handler
Unhandled(e) ==
    [src |-> "handler", kind |-> "unhandled", status_code |-> 0, body |-> PyStr(e.text)]

\* one record of the module logger
LogRec(level, exc_info) == [level |-> level, exc_info |-> exc_info]

\* what an except clause does: the log records it writes, then the response
Raise(logs, resp) == [log |-> logs, resp |-> resp]

\* ------------------------------------------------ results of a try body
Ok(resp) == [ok |-> TRUE, resp |-> resp]
Err(e) == [ok |-> FALSE, exc |-> e]

\* the exception pydantic raises when a model rejects its input
PydanticError(model) ==
    [cls |-> "ValidationError", text |-> <<"validation error for ", model>>,
     has_status_code |-> FALSE, status_code |-> 0,
     has_details |-> FALSE, details |-> {}]

\* the exception of calling a method on a value that has none (None.get)
AttributeError ==
    [cls |-> "AttributeError", text |-> Lit("object has no attribute 'get'"),
     has_status_code |-> FALSE, status_code |-> 0,
     has_details |-> FALSE, details |-> {}]

\* the exception of iterating a value that is not iterable
TypeError ==
    [cls |-> "TypeError", text |-> Lit("object is not iterable"),
     has_status_code |-> FALSE, status_code |-> 0,
     has_details |-> FALSE, details |-> {}]

EmptyDict == [k \in {} |-> PyNone]

\* ------------------------------------------------------- close_session
close_session_params(req) == TRUE

close_session_call(req) ==
    [method |-> "close_session", session_id |-> req.session_id]

close_session_body(req, response) ==
    LET st == Get(response, "status", PyStr(Lit("success")))
    IN  IF IsStr(st) THEN Ok(Success(HTTP_200_OK, [status |-> st.s]))
        ELSE Err(PydanticError("CloseSessionResponse"))

\* close_session's clauses with the (ServerError, HeyGenAPIError) clause moved to the top
close_session_except_apiFirst(req, e) ==
    IF IsInstance(e, {"ServerError", "HeyGenAPIError"}) THEN
        Raise(<<LogRec("error", FALSE)>>,
              HTTPException(GetStatusCode(e, HTTP_500_INTERNAL_SERVER_ERROR),
                            StrDetail(e.text)))
    ELSE IF IsInstance(e, {"AuthenticationError"}) THEN
        Raise(<<>>, HTTPException(HTTP_401_UNAUTHORIZED, StrDetail(e.text)))
    ELSE IF IsInstance(e, {"SessionNotFoundError"}) THEN
        Raise(<<>>, HTTPException(HTTP_404_NOT_FOUND, StrDetail(e.text)))
    ELSE IF IsInstance(e, {"RateLimitError"}) THEN
        Raise(<<>>, HTTPException(HTTP_429_TOO_MANY_REQUESTS, StrDetail(e.text)))
    ELSE IF IsInstance(e, {"Exception"}) THEN
        Raise(<<LogRec("error", TRUE)>>,
              HTTPException(HTTP_500_INTERNAL_SERVER_ERROR,
                            StrDetail(Lit("An unexpected error occurred"))))
    ELSE Raise(<<>>, Unhandled(e))

close_session_except(req, e) ==
    IF IsInstance(e, {"AuthenticationError"}) THEN
        Raise(<<>>, HTTPException(HTTP_401_UNAUTHORIZED, StrDetail(e.text)))
    ELSE IF IsInstance(e, {"SessionNotFoundError"}) THEN
        Raise(<<>>, HTTPException(HTTP_404_NOT_FOUND, StrDetail(e.text)))
    ELSE IF IsInstance(e, {"RateLimitError"}) THEN
        Raise(<<>>, HTTPException(HTTP_429_TOO_MANY_REQUESTS, StrDetail(e.text)))
    ELSE IF IsInstance(e, {"ServerError", "HeyGenAPIError"}) THEN
        Raise(<<LogRec("error", FALSE)>>,
              HTTPException(GetStatusCode(e, HTTP_500_INTERNAL_SERVER_ERROR),
                            StrDetail(e.text)))
    ELSE IF IsInstance(e, {"Exception"}) THEN
        Raise(<<LogRec("error", TRUE)>>,
              HTTPException(HTTP_500_INTERNAL_SERVER_ERROR,
                            StrDetail(Lit("An unexpected error occurred"))))
    ELSE Raise(<<>>, Unhandled(e))

\* ------------------------------------------------ create_session_token
DefaultExpiresIn == 3600

\* the handler's parameters are a plain str and a plain Optional[int]
create_session_token_params(req) == TRUE

create_session_token_call(req) ==
    [method |-> "create_session_token", session_id |-> req.session_id,
     expires_in |-> IF req.expires_in.t = "omitted" THEN DefaultExpiresIn
                    ELSE req.expires_in.i]

\* the body reading the token at the top level of the payload instead of under data
create_session_token_body_topLevelToken(req, response) ==
    LET data == Get(response, "data", [t |-> "dict", d |-> EmptyDict])
    IN  IF data.t # "dict" THEN Err(AttributeError)
        ELSE LET token == Get(response, "token", PyStr(<<>>))
                 error == Get(response, "error", PyNone)
             IN  IF IsStr(token) /\ error.t \in {"none", "dict"}
                 THEN Ok(Success(HTTP_201_CREATED, [token |-> token.s, error |-> error]))
                 ELSE Err(PydanticError("CreateTokenResponse"))

create_session_token_body(req, response) ==
    LET data == Get(response, "data", [t |-> "dict", d |-> EmptyDict])
    IN  IF data.t # "dict" THEN Err(AttributeError)
        ELSE LET token == Get(data.d, "token", PyStr(<<>>))
                 error == Get(response, "error", PyNone)
             IN  IF IsStr(token) /\ error.t \in {"none", "dict"}
                 THEN Ok(Success(HTTP_201_CREATED, [token |-> token.s, error |-> error]))
                 ELSE Err(PydanticError("CreateTokenResponse"))

create_session_token_except(req, e) ==
    IF IsInstance(e, {"AuthenticationError"}) THEN
        Raise(<<>>, HTTPException(HTTP_401_UNAUTHORIZED, StrDetail(e.text)))
    ELSE IF IsInstance(e, {"SessionNotFoundError"}) THEN
        Raise(<<>>, HTTPException(HTTP_404_NOT_FOUND, StrDetail(e.text)))
    ELSE IF IsInstance(e, {"RateLimitError"}) THEN
        Raise(<<>>, HTTPException(HTTP_429_TOO_MANY_REQUESTS, StrDetail(e.text)))
    ELSE IF IsInstance(e, {"ServerError", "HeyGenAPIError"}) THEN
        Raise(<<LogRec("error", FALSE)>>,
              HTTPException(GetStatusCode(e, HTTP_500_INTERNAL_SERVER_ERROR),
                            StrDetail(e.text)))
    ELSE IF IsInstance(e, {"Exception"}) THEN
        Raise(<<LogRec("error", TRUE)>>,
              HTTPException(HTTP_500_INTERNAL_SERVER_ERROR,
                            StrDetail(Lit("An unexpected error occurred"))))
    ELSE Raise(<<>>, Unhandled(e))

\* ------------------------------------------------------ interrupt_task
interrupt_task_params(req) == TRUE

interrupt_task_call(req) ==
    [method |-> "interrupt_task", session_id |-> req.session_id]

interrupt_task_body(req, response) ==
    Ok(Success(HTTP_200_OK,
               [success |-> TRUE, message |-> Lit("Interrupt signal sent successfully")]))

interrupt_task_except(req, e) ==
    IF IsInstance(e, {"AuthenticationError"}) THEN
        Raise(<<>>, HTTPException(HTTP_401_UNAUTHORIZED, StrDetail(e.text)))
    ELSE IF IsInstance(e, {"SessionNotFoundError"}) THEN
        Raise(<<>>, HTTPException(HTTP_404_NOT_FOUND, StrDetail(e.text)))
    ELSE IF IsInstance(e, {"RateLimitError"}) THEN
        Raise(<<>>, HTTPException(HTTP_429_TOO_MANY_REQUESTS, StrDetail(e.text)))
    ELSE IF IsInstance(e, {"ServerError", "HeyGenAPIError"}) THEN
        Raise(<<LogRec("error", FALSE)>>,
              HTTPException(GetStatusCode(e, HTTP_500_INTERNAL_SERVER_ERROR),
                            StrDetail(e.text)))
    ELSE IF IsInstance(e, {"Exception"}) THEN
        Raise(<<LogRec("error", TRUE)>>,
              HTTPException(HTTP_500_INTERNAL_SERVER_ERROR,
                            StrDetail(Lit("An unexpected error occurred"))))
    ELSE Raise(<<>>, Unhandled(e))

\* ----------------------------------------------------------- keep_alive
\* KeepAliveResponse.validate_code
KeepAliveResponse_validate_code(v) == v >= 0

\* KeepAliveResponse.validate_message: the stripped message, <<>> when rejected
KeepAliveResponse_validate_message(v) == Strip(v)

\* KeepAliveRequest.validate_session_id: declared, never applied by the handler
KeepAliveRequest_validate_session_id(v) ==
    IF v = <<>> \/ Strip(v) = <<>> THEN Err(PydanticError("KeepAliveRequest"))
    ELSE Ok(Strip(v))

keep_alive_params(req) == TRUE

keep_alive_call(req) ==
    [method |-> "keep_alive", session_id |-> req.session_id]

keep_alive_body(req, response) ==
    LET code == Get(response, "code", PyInt(0))
        message == Get(response, "message",
                       PyStr(Lit("Keep-alive signal sent successfully")))
    IN  IF /\ IsInt(code) /\ IsStr(message)
           /\ KeepAliveResponse_validate_code(code.i)
           /\ KeepAliveResponse_validate_message(message.s) # <<>>
        THEN Ok(Success(HTTP_200_OK,
                        [code |-> code.i,
                         message |-> KeepAliveResponse_validate_message(message.s)]))
        ELSE Err(PydanticError("KeepAliveResponse"))

keep_alive_except(req, e) ==
    IF IsInstance(e, {"AuthenticationError"}) THEN
        Raise(<<>>, HTTPException(HTTP_401_UNAUTHORIZED, StrDetail(e.text)))
    ELSE IF IsInstance(e, {"SessionNotFoundError"}) THEN
        Raise(<<>>, HTTPException(HTTP_404_NOT_FOUND, StrDetail(e.text)))
    ELSE IF IsInstance(e, {"RateLimitError"}) THEN
        Raise(<<>>, HTTPException(HTTP_429_TOO_MANY_REQUESTS, StrDetail(e.text)))
    ELSE IF IsInstance(e, {"ServerError", "HeyGenAPIError"}) THEN
        Raise(<<LogRec("error", FALSE)>>,
              HTTPException(GetStatusCode(e, HTTP_500_INTERNAL_SERVER_ERROR),
                            StrDetail(e.text)))
    ELSE IF IsInstance(e, {"Exception"}) THEN
        Raise(<<LogRec("error", TRUE)>>,
              HTTPException(HTTP_500_INTERNAL_SERVER_ERROR,
                            StrDetail(Lit("An unexpected error occurred"))))
    ELSE Raise(<<>>, Unhandled(e))

\* --------------------------------------------------------- list_avatars
\* str.upper() on the characters of the alphabet
UpperTok(c) == CASE c = "a" -> "A" [] c = "b" -> "B" [] OTHER -> c

Upper(s) == [i \in 1..Len(s) |-> UpperTok(s[i])]

\* AvatarInfo.validate_status: Err on an empty status, else strip().upper()
AvatarInfo_validate_status(v) ==
    IF v = <<>> \/ Strip(v) = <<>> THEN Err(PydanticError("AvatarInfo"))
    ELSE Ok(Upper(Strip(v)))

\* AvatarInfo with is_public answered as the default whatever upstream sent
AvatarInfo_publicDefaulted(avatar) ==
    LET avatar_id == Get(avatar, "avatar_id", PyNone)
        created_at == Get(avatar, "created_at", PyNone)
        is_public == PyBool(TRUE)
        status == Get(avatar, "status", PyStr(Lit("ACTIVE")))
    IN  IF ~(IsStr(avatar_id) /\ IsInt(created_at) /\ IsBool(is_public) /\ IsStr(status))
        THEN Err(PydanticError("AvatarInfo"))
        ELSE IF ~AvatarInfo_validate_status(status.s).ok
        THEN Err(PydanticError("AvatarInfo"))
        ELSE Ok([avatar_id |-> avatar_id.s, created_at |-> created_at.i,
                 is_public |-> is_public.b,
                 status |-> AvatarInfo_validate_status(status.s).resp])

\* AvatarInfo(avatar_id=..., created_at=..., is_public=..., status=...)
AvatarInfo(avatar) ==
    LET avatar_id == Get(avatar, "avatar_id", PyNone)
        created_at == Get(avatar, "created_at", PyNone)
        is_public == Get(avatar, "is_public", PyBool(TRUE))
        status == Get(avatar, "status", PyStr(Lit("ACTIVE")))
    IN  IF ~(IsStr(avatar_id) /\ IsInt(created_at) /\ IsBool(is_public) /\ IsStr(status))
        THEN Err(PydanticError("AvatarInfo"))
        ELSE IF ~AvatarInfo_validate_status(status.s).ok
        THEN Err(PydanticError("AvatarInfo"))
        ELSE Ok([avatar_id |-> avatar_id.s, created_at |-> created_at.i,
                 is_public |-> is_public.b,
                 status |-> AvatarInfo_validate_status(status.s).resp])

\* ListAvatarsResponse.validate_code
ListAvatarsResponse_validate_code(v) == v >= 0

\* ListAvatarsResponse.validate_message: the stripped message, <<>> when rejected
ListAvatarsResponse_validate_message(v) == Strip(v)

list_avatars_params(req) == TRUE

list_avatars_call(req) == [method |-> "list_avatars"]

list_avatars_body(req, response) ==
    LET code == Get(response, "code", PyInt(100))
        message == Get(response, "message", PyStr(Lit("Success")))
        raw == Get(response, "data", [t |-> "list", l |-> <<>>])
    IN  IF raw.t # "list" THEN Err(TypeError)
        ELSE LET data == [i \in 1..Len(raw.l) |-> AvatarInfo(raw.l[i])]
             IN  IF \E i \in 1..Len(data) : ~data[i].ok
                 THEN Err(PydanticError("AvatarInfo"))
                 ELSE IF ~(/\ IsInt(code) /\ IsStr(message)
                           /\ ListAvatarsResponse_validate_code(code.i)
                           /\ ListAvatarsResponse_validate_message(message.s) # <<>>)
                 THEN Err(PydanticError("ListAvatarsResponse"))
                 ELSE Ok(Success(HTTP_200_OK,
                         [code |-> code.i,
                          message |-> ListAvatarsResponse_validate_message(message.s),
                          data |-> [i \in 1..Len(data) |-> data[i].resp]]))

\* list_avatars' clauses with the API clause answering 500 whatever the error carries
list_avatars_except_fixed500(req, e) ==
    IF IsInstance(e, {"HeyGenValidationError"}) THEN
        Raise(<<LogRec("warning", FALSE)>>,
              HTTPException(HTTP_400_BAD_REQUEST, MsgDetailsDetail(e.text, GetDetails(e))))
    ELSE IF IsInstance(e, {"AuthenticationError"}) THEN
        Raise(<<LogRec("warning", FALSE)>>,
              HTTPException(HTTP_401_UNAUTHORIZED, MsgDetail(e.text)))
    ELSE IF IsInstance(e, {"RateLimitError"}) THEN
        Raise(<<LogRec("warning", FALSE)>>,
              HTTPException(HTTP_429_TOO_MANY_REQUESTS, MsgDetail(e.text)))
    ELSE IF IsInstance(e, {"ServerError", "HeyGenAPIError"}) THEN
        Raise(<<LogRec("error", FALSE)>>,
              HTTPException(HTTP_500_INTERNAL_SERVER_ERROR,
                            MsgDetailsDetail(e.text, GetDetails(e))))
    ELSE IF IsInstance(e, {"Exception"}) THEN
        Raise(<<LogRec("error", TRUE)>>,
              HTTPException(HTTP_500_INTERNAL_SERVER_ERROR,
                            MsgDetail(Lit("Internal server error"))))
    ELSE Raise(<<>>, Unhandled(e))

list_avatars_except(req, e) ==
    IF IsInstance(e, {"HeyGenValidationError"}) THEN
        Raise(<<LogRec("warning", FALSE)>>,
              HTTPException(HTTP_400_BAD_REQUEST, MsgDetailsDetail(e.text, GetDetails(e))))
    ELSE IF IsInstance(e, {"AuthenticationError"}) THEN
        Raise(<<LogRec("warning", FALSE)>>,
              HTTPException(HTTP_401_UNAUTHORIZED, MsgDetail(e.text)))
    ELSE IF IsInstance(e, {"RateLimitError"}) THEN
        Raise(<<LogRec("warning", FALSE)>>,
              HTTPException(HTTP_429_TOO_MANY_REQUESTS, MsgDetail(e.text)))
    ELSE IF IsInstance(e, {"ServerError", "HeyGenAPIError"}) THEN
        Raise(<<LogRec("error", FALSE)>>,
              HTTPException(GetStatusCode(e, HTTP_500_INTERNAL_SERVER_ERROR),
                            MsgDetailsDetail(e.text, GetDetails(e))))
    ELSE IF IsInstance(e, {"Exception"}) THEN
        Raise(<<LogRec("error", TRUE)>>,
              HTTPException(HTTP_500_INTERNAL_SERVER_ERROR,
                            MsgDetail(Lit("Internal server error"))))
    ELSE Raise(<<>>, Unhandled(e))

\* ------------------------------------------------- list_sessions_active
\* SessionInfo(session_id=..., created_at=..., status=...)
SessionInfo(session) ==
    LET session_id == Get(session, "session_id", PyNone)
        created_at == Get(session, "created_at", PyNone)
        status == Get(session, "status", PyStr(Lit("ACTIVE")))
    IN  IF ~(IsStr(session_id) /\ IsInt(created_at) /\ IsStr(status))
        THEN Err(PydanticError("SessionInfo"))
        ELSE Ok([session_id |-> session_id.s, status |-> status.s,
                 created_at |-> created_at.i])

list_sessions_active_params(req) == TRUE

list_sessions_active_call(req) == [method |-> "list_active_sessions"]

\* the body leaving out the entries SessionInfo rejects instead of failing
list_sessions_active_body_dropInvalid(req, response) ==
    LET code == Get(response, "code", PyInt(100))
        message == Get(response, "message", PyStr(Lit("Success")))
        raw == Get(response, "data", [t |-> "list", l |-> <<>>])
    IN  IF raw.t # "list" THEN Err(TypeError)
        ELSE LET Accepted(session) == SessionInfo(session).ok
                 kept == SelectSeq(raw.l, Accepted)
                 data == [i \in 1..Len(kept) |-> SessionInfo(kept[i])]
             IN  IF ~(IsInt(code) /\ IsStr(message))
                 THEN Err(PydanticError("ListSessionsActiveResponse"))
                 ELSE Ok(Success(HTTP_200_OK,
                         [code |-> code.i, message |-> message.s,
                          data |-> [i \in 1..Len(data) |-> data[i].resp]]))

list_sessions_active_body(req, response) ==
    LET code == Get(response, "code", PyInt(100))
        message == Get(response, "message", PyStr(Lit("Success")))
        raw == Get(response, "data", [t |-> "list", l |-> <<>>])
    IN  IF raw.t # "list" THEN Err(TypeError)
        ELSE LET data == [i \in 1..Len(raw.l) |-> SessionInfo(raw.l[i])]
             IN  IF \E i \in 1..Len(data) : ~data[i].ok
                 THEN Err(PydanticError("SessionInfo"))
                 ELSE IF ~(IsInt(code) /\ IsStr(message))
                 THEN Err(PydanticError("ListSessionsActiveResponse"))
                 ELSE Ok(Success(HTTP_200_OK,
                         [code |-> code.i, message |-> message.s,
                          data |-> [i \in 1..Len(data) |-> data[i].resp]]))

list_sessions_active_except(req, e) ==
    IF IsInstance(e, {"HeyGenValidationError"}) THEN
        Raise(<<LogRec("warning", FALSE)>>,
              HTTPException(HTTP_400_BAD_REQUEST, MsgDetailsDetail(e.text, GetDetails(e))))
    ELSE IF IsInstance(e, {"AuthenticationError"}) THEN
        Raise(<<LogRec("warning", FALSE)>>,
              HTTPException(HTTP_401_UNAUTHORIZED, MsgDetail(e.text)))
    ELSE IF IsInstance(e, {"RateLimitError"}) THEN
        Raise(<<LogRec("warning", FALSE)>>,
              HTTPException(HTTP_429_TOO_MANY_REQUESTS, MsgDetail(e.text)))
    ELSE IF IsInstance(e, {"ServerError", "HeyGenAPIError"}) THEN
        Raise(<<LogRec("error", FALSE)>>,
              HTTPException(GetStatusCode(e, HTTP_500_INTERNAL_SERVER_ERROR),
                            MsgDetailsDetail(e.text, GetDetails(e))))
    ELSE IF IsInstance(e, {"Exception"}) THEN
        Raise(<<LogRec("error", TRUE)>>,
              HTTPException(HTTP_500_INTERNAL_SERVER_ERROR,
                            MsgDetail(Lit("Internal server error"))))
    ELSE Raise(<<>>, Unhandled(e))

\* ------------------------------------------------ list_sessions_history
DefaultLimit == 10
DefaultOffset == 0
MinLimit == 1
MaxLimit == 100
MinOffset == 0

\* a Query parameter with a default
Resolve(param, default) == IF param.t = "omitted" THEN default ELSE param.i

\* the Query declarations without the upper bound of limit
list_sessions_history_params_noUpper(req) ==
    /\ Resolve(req.limit, DefaultLimit) >= MinLimit
    /\ Resolve(req.offset, DefaultOffset) >= MinOffset

\* limit: Query(10, ge=1, le=100); offset: Query(0, ge=0)
list_sessions_history_params(req) ==
    /\ Resolve(req.limit, DefaultLimit) >= MinLimit
    /\ Resolve(req.limit, DefaultLimit) <= MaxLimit
    /\ Resolve(req.offset, DefaultOffset) >= MinOffset

list_sessions_history_call(req) ==
    [method |-> "list_sessions_history",
     start_time |-> IF req.start_time.t = "omitted" THEN PyNone ELSE req.start_time,
     end_time |-> IF req.end_time.t = "omitted" THEN PyNone ELSE req.end_time,
     limit |-> Resolve(req.limit, DefaultLimit),
     offset |-> Resolve(req.offset, DefaultOffset)]

\* SessionHistoryInfo(session_id=session["session_id"], ...)
SessionHistoryInfo(session) ==
    LET session_id == session["session_id"]
        created_at == session["created_at"]
        ended_at == Get(session, "ended_at", PyNone)
        status == Get(session, "status", PyStr(Lit("COMPLETED")))
        duration_seconds == Get(session, "duration_seconds", PyInt(0))
        avatar_id == Get(session, "avatar_id", PyNone)
        voice_name == Get(session, "voice_name", PyNone)
    IN  IF /\ IsStr(session_id) /\ IsInt(created_at)
           /\ ended_at.t \in {"none", "int"}
           /\ IsStr(status) /\ IsInt(duration_seconds)
           /\ avatar_id.t \in {"none", "str"}
           /\ voice_name.t \in {"none", "str"}
        THEN Ok([session_id |-> session_id.s, created_at |-> created_at.i,
                 ended_at |-> ended_at, status |-> status.s,
                 duration_seconds |-> duration_seconds.i,
                 avatar_id |-> avatar_id, voice_name |-> voice_name])
        ELSE Err(PydanticError("SessionHistoryInfo"))

\* the filter keeping only the entries that also carry a status
HasRequiredKeys_withStatus(session) ==
    /\ "session_id" \in DOMAIN session
    /\ "created_at" \in DOMAIN session
    /\ "status" \in DOMAIN session

\* if "session_id" in session and "created_at" in session
HasRequiredKeys(session) ==
    "session_id" \in DOMAIN session /\ "created_at" \in DOMAIN session

\* the body recomputing total and has_more from the entries it kept
list_sessions_history_body_recount(req, response) ==
    LET code == Get(response, "code", PyInt(100))
        message == Get(response, "message", PyStr(Lit("Success")))
        raw == Get(response, "data", [t |-> "list", l |-> <<>>])
        pagination == Get(response, "pagination", [t |-> "dict", d |-> EmptyDict])
    IN  IF raw.t # "list" THEN Err(TypeError)
        ELSE LET kept == SelectSeq(raw.l, HasRequiredKeys)
                 data == [i \in 1..Len(kept) |-> SessionHistoryInfo(kept[i])]
             IN  IF \E i \in 1..Len(data) : ~data[i].ok
                 THEN Err(PydanticError("SessionHistoryInfo"))
                 ELSE IF pagination.t # "dict" THEN Err(AttributeError)
                 ELSE IF ~(IsInt(code) /\ IsStr(message))
                 THEN Err(PydanticError("ListSessionsHistoryResponse"))
                 ELSE Ok(Success(HTTP_200_OK,
                         [code |-> code.i, message |-> message.s,
                          data |-> [i \in 1..Len(data) |-> data[i].resp],
                          pagination |->
                            [total |-> Len(data),
                             limit |-> Resolve(req.limit, DefaultLimit),
                             offset |-> Resolve(req.offset, DefaultOffset),
                             has_more |-> FALSE]]))

list_sessions_history_body(req, response) ==
    LET code == Get(response, "code", PyInt(100))
        message == Get(response, "message", PyStr(Lit("Success")))
        raw == Get(response, "data", [t |-> "list", l |-> <<>>])
        pagination == Get(response, "pagination", [t |-> "dict", d |-> EmptyDict])
    IN  IF raw.t # "list" THEN Err(TypeError)
        ELSE LET kept == SelectSeq(raw.l, HasRequiredKeys)
                 data == [i \in 1..Len(kept) |-> SessionHistoryInfo(kept[i])]
             IN  IF \E i \in 1..Len(data) : ~data[i].ok
                 THEN Err(PydanticError("SessionHistoryInfo"))
                 ELSE IF pagination.t # "dict" THEN Err(AttributeError)
                 ELSE LET total == Get(pagination.d, "total", PyInt(0))
                          has_more == Get(pagination.d, "has_more", PyBool(FALSE))
                      IN  IF ~(IsInt(total) /\ IsBool(has_more))
                          THEN Err(PydanticError("PaginationInfo"))
                          ELSE IF ~(IsInt(code) /\ IsStr(message))
                          THEN Err(PydanticError("ListSessionsHistoryResponse"))
                          ELSE Ok(Success(HTTP_200_OK,
                                  [code |-> code.i, message |-> message.s,
                                   data |-> [i \in 1..Len(data) |-> data[i].resp],
                                   pagination |->
                                     [total |-> total.i,
                                      limit |-> Resolve(req.limit, DefaultLimit),
                                      offset |-> Resolve(req.offset, DefaultOffset),
                                      has_more |-> has_more.b]]))

\* list_sessions_history's clauses without the last `except Exception`
list_sessions_history_except_noCatchAll(req, e) ==
    IF IsInstance(e, {"HeyGenValidationError"}) THEN
        Raise(<<LogRec("warning", FALSE)>>,
              HTTPException(HTTP_400_BAD_REQUEST, MsgDetailsDetail(e.text, GetDetails(e))))
    ELSE IF IsInstance(e, {"AuthenticationError"}) THEN
        Raise(<<LogRec("warning", FALSE)>>,
              HTTPException(HTTP_401_UNAUTHORIZED, MsgDetail(e.text)))
    ELSE IF IsInstance(e, {"RateLimitError"}) THEN
        Raise(<<LogRec("warning", FALSE)>>,
              HTTPException(HTTP_429_TOO_MANY_REQUESTS, MsgDetail(e.text)))
    ELSE IF IsInstance(e, {"ServerError", "HeyGenAPIError"}) THEN
        Raise(<<LogRec("error", FALSE)>>,
              HTTPException(GetStatusCode(e, HTTP_500_INTERNAL_SERVER_ERROR),
                            MsgDetailsDetail(e.text, GetDetails(e))))
    ELSE Raise(<<>>, Unhandled(e))

list_sessions_history_except(req, e) ==
    IF IsInstance(e, {"HeyGenValidationError"}) THEN
        Raise(<<LogRec("warning", FALSE)>>,
              HTTPException(HTTP_400_BAD_REQUEST, MsgDetailsDetail(e.text, GetDetails(e))))
    ELSE IF IsInstance(e, {"AuthenticationError"}) THEN
        Raise(<<LogRec("warning", FALSE)>>,
              HTTPException(HTTP_401_UNAUTHORIZED, MsgDetail(e.text)))
    ELSE IF IsInstance(e, {"RateLimitError"}) THEN
        Raise(<<LogRec("warning", FALSE)>>,
              HTTPException(HTTP_429_TOO_MANY_REQUESTS, MsgDetail(e.text)))
    ELSE IF IsInstance(e, {"ServerError", "HeyGenAPIError"}) THEN
        Raise(<<LogRec("error", FALSE)>>,
              HTTPException(GetStatusCode(e, HTTP_500_INTERNAL_SERVER_ERROR),
                            MsgDetailsDetail(e.text, GetDetails(e))))
    ELSE IF IsInstance(e, {"Exception"}) THEN
        Raise(<<LogRec("error", TRUE)>>,
              HTTPException(HTTP_500_INTERNAL_SERVER_ERROR,
                            MsgDetail(Lit("Internal server error"))))
    ELSE Raise(<<>>, Unhandled(e))

\* ------------------------------------------- create_streaming_session
\* the error validate_new_session_request raises on a rejected configuration
NewSessionRejected ==
    [cls |-> "HeyGenValidationError", text |-> Lit("Invalid session request"),
     has_status_code |-> TRUE, status_code |-> HTTP_400_BAD_REQUEST,
     has_details |-> TRUE, details |-> {"avatar_id"}]

\* _requests.validate_new_session_request: returns, or raises on a rejected request
validate_new_session_request(config) ==
    CASE config = "rejected"        -> Err(NewSessionRejected)
      [] config = "rejected_schema" -> Err(PydanticError("NewSessionRequest"))
      [] OTHER                      -> Ok(config)

\* request: NewSessionRequest, parsed by the framework
create_streaming_session_params(req) == req.config # "malformed"

create_streaming_session_call(req) ==
    [method |-> "create_session", config |-> req.config]

create_streaming_session_body(req, response) == Ok(Success(HTTP_201_CREATED, response))

\* create_streaming_session's clauses with the last clause returning str(e)
create_streaming_session_except_leak(req, e) ==
    IF IsInstance(e, {"HeyGenValidationError"}) THEN
        Raise(<<LogRec("warning", FALSE)>>,
              HTTPException(HTTP_400_BAD_REQUEST, MsgDetailsDetail(e.text, GetDetails(e))))
    ELSE IF IsInstance(e, {"AuthenticationError"}) THEN
        Raise(<<LogRec("warning", FALSE)>>,
              HTTPException(HTTP_401_UNAUTHORIZED, MsgDetail(e.text)))
    ELSE IF IsInstance(e, {"NotFoundError"}) THEN
        Raise(<<LogRec("warning", FALSE)>>,
              HTTPException(HTTP_404_NOT_FOUND, MsgDetailsDetail(e.text, GetDetails(e))))
    ELSE IF IsInstance(e, {"ValidationError"}) THEN
        Raise(<<LogRec("warning", FALSE)>>,
              HTTPException(HTTP_422_UNPROCESSABLE_ENTITY,
                            MsgDetailsDetail(Lit("Validation error"), PyStr(e.text))))
    ELSE IF IsInstance(e, {"RateLimitError"}) THEN
        Raise(<<LogRec("warning", FALSE)>>,
              HTTPException(HTTP_429_TOO_MANY_REQUESTS, MsgDetail(e.text)))
    ELSE IF IsInstance(e, {"ServerError", "HeyGenAPIError"}) THEN
        Raise(<<LogRec("error", FALSE)>>,
              HTTPException(GetStatusCode(e, HTTP_500_INTERNAL_SERVER_ERROR),
                            MsgDetailsDetail(e.text, GetDetails(e))))
    ELSE IF IsInstance(e, {"Exception"}) THEN
        Raise(<<LogRec("error", TRUE)>>,
              HTTPException(HTTP_500_INTERNAL_SERVER_ERROR, MsgDetail(e.text)))
    ELSE Raise(<<>>, Unhandled(e))

create_streaming_session_except(req, e) ==
    IF IsInstance(e, {"HeyGenValidationError"}) THEN
        Raise(<<LogRec("warning", FALSE)>>,
              HTTPException(HTTP_400_BAD_REQUEST, MsgDetailsDetail(e.text, GetDetails(e))))
    ELSE IF IsInstance(e, {"AuthenticationError"}) THEN
        Raise(<<LogRec("warning", FALSE)>>,
              HTTPException(HTTP_401_UNAUTHORIZED, MsgDetail(e.text)))
    ELSE IF IsInstance(e, {"NotFoundError"}) THEN
        Raise(<<LogRec("warning", FALSE)>>,
              HTTPException(HTTP_404_NOT_FOUND, MsgDetailsDetail(e.text, GetDetails(e))))
    ELSE IF IsInstance(e, {"ValidationError"}) THEN
        Raise(<<LogRec("warning", FALSE)>>,
              HTTPException(HTTP_422_UNPROCESSABLE_ENTITY,
                            MsgDetailsDetail(Lit("Validation error"), PyStr(e.text))))
    ELSE IF IsInstance(e, {"RateLimitError"}) THEN
        Raise(<<LogRec("warning", FALSE)>>,
              HTTPException(HTTP_429_TOO_MANY_REQUESTS, MsgDetail(e.text)))
    ELSE IF IsInstance(e, {"ServerError", "HeyGenAPIError"}) THEN
        Raise(<<LogRec("error", FALSE)>>,
              HTTPException(GetStatusCode(e, HTTP_500_INTERNAL_SERVER_ERROR),
                            MsgDetailsDetail(e.text, GetDetails(e))))
    ELSE IF IsInstance(e, {"Exception"}) THEN
        Raise(<<LogRec("error", TRUE)>>,
              HTTPException(HTTP_500_INTERNAL_SERVER_ERROR,
                            MsgDetail(Lit("Internal server error"))))
    ELSE Raise(<<>>, Unhandled(e))

\* ------------------------------------------------------------ send_task
TaskMode == {"sync", "async"}
TaskType == {"repeat", "chat"}

\* validate_text returning its input instead of the stripped text
SendTaskRequest_validate_text_noStrip(v) ==
    IF Strip(v) = <<>> THEN Err(PydanticError("SendTaskRequest")) ELSE Ok(v)

\* SendTaskRequest.validate_text: Err on an empty text, else the stripped text
SendTaskRequest_validate_text(v) ==
    IF Strip(v) = <<>> THEN Err(PydanticError("SendTaskRequest")) ELSE Ok(Strip(v))

\* request: SendTaskRequest, parsed by the framework
send_task_params(req) ==
    /\ Len(req.text) >= 1
    /\ SendTaskRequest_validate_text(req.text).ok
    /\ req.task_mode \in TaskMode \cup {"omitted"}
    /\ req.task_type \in TaskType \cup {"omitted"}

send_task_call(req) ==
    [method |-> "send_task", session_id |-> req.session_id,
     text |-> SendTaskRequest_validate_text(req.text).resp,
     task_mode |-> IF req.task_mode = "omitted" THEN "sync" ELSE req.task_mode,
     task_type |-> IF req.task_type = "omitted" THEN "repeat" ELSE req.task_type]

send_task_body(req, response) == Ok(Success(HTTP_200_OK, response))

send_task_except(req, e) ==
    IF IsInstance(e, {"HeyGenValidationError"}) THEN
        Raise(<<LogRec("warning", FALSE)>>,
              HTTPException(HTTP_400_BAD_REQUEST, MsgDetailsDetail(e.text, GetDetails(e))))
    ELSE IF IsInstance(e, {"AuthenticationError"}) THEN
        Raise(<<LogRec("warning", FALSE)>>,
              HTTPException(HTTP_401_UNAUTHORIZED, MsgDetail(e.text)))
    ELSE IF IsInstance(e, {"SessionNotFoundError"}) THEN
        Raise(<<LogRec("warning", FALSE)>>,
              HTTPException(HTTP_404_NOT_FOUND, MsgDetail(e.text)))
    ELSE IF IsInstance(e, {"RateLimitError"}) THEN
        Raise(<<LogRec("warning", FALSE)>>,
              HTTPException(HTTP_429_TOO_MANY_REQUESTS, MsgDetail(e.text)))
    ELSE IF IsInstance(e, {"ServerError", "HeyGenAPIError"}) THEN
        Raise(<<LogRec("error", FALSE)>>,
              HTTPException(GetStatusCode(e, HTTP_500_INTERNAL_SERVER_ERROR),
                            MsgDetailsDetail(e.text, GetDetails(e))))
    ELSE IF IsInstance(e, {"Exception"}) THEN
        Raise(<<LogRec("error", TRUE)>>,
              HTTPException(HTTP_500_INTERNAL_SERVER_ERROR,
                            MsgDetail(Lit("Internal server error"))))
    ELSE Raise(<<>>, Unhandled(e))

\* ---------------------------------------------- start_streaming_session
\* request: StartSessionRequest, session_id with min_length=1
start_streaming_session_params(req) == Len(req.session_id) >= 1

start_streaming_session_call(req) ==
    [method |-> "start_session", session_id |-> req.session_id]

start_streaming_session_body(req, response) == Ok(Success(HTTP_200_OK, response))

start_streaming_session_except(req, e) ==
    IF IsInstance(e, {"HeyGenValidationError"}) THEN
        Raise(<<LogRec("warning", FALSE)>>,
              HTTPException(HTTP_400_BAD_REQUEST, MsgDetailsDetail(e.text, GetDetails(e))))
    ELSE IF IsInstance(e, {"AuthenticationError"}) THEN
        Raise(<<LogRec("warning", FALSE)>>,
              HTTPException(HTTP_401_UNAUTHORIZED, MsgDetail(e.text)))
    ELSE IF IsInstance(e, {"NotFoundError"}) THEN
        Raise(<<LogRec("warning", FALSE)>>,
              HTTPException(HTTP_404_NOT_FOUND,
                            MsgDetail(Lit("Session not found: ") \o req.session_id)))
    ELSE IF IsInstance(e, {"RateLimitError"}) THEN
        Raise(<<LogRec("warning", FALSE)>>,
              HTTPException(HTTP_429_TOO_MANY_REQUESTS, MsgDetail(e.text)))
    ELSE IF IsInstance(e, {"ServerError", "HeyGenAPIError"}) THEN
        Raise(<<LogRec("error", FALSE)>>,
              HTTPException(GetStatusCode(e, HTTP_500_INTERNAL_SERVER_ERROR),
                            MsgDetailsDetail(e.text, GetDetails(e))))
    ELSE IF IsInstance(e, {"Exception"}) THEN
        Raise(<<LogRec("error", TRUE)>>,
              HTTPException(HTTP_500_INTERNAL_SERVER_ERROR,
                            MsgDetail(Lit("Internal server error"))))
    ELSE Raise(<<>>, Unhandled(e))

\* ---------------------------------------------------------------- inputs
MaxEntries == 2

Omitted == [t |-> "omitted"]

\* session ids a path can carry (a path segment is never empty)
PathSessionIds == {<<"a">>, <<SP, "a", SP>>, <<SP>>}

\* session ids a JSON body can carry
BodySessionIds == PathSessionIds \cup {<<>>}

ExpiresInValues == {Omitted, PyInt(59), PyInt(60), PyInt(86400), PyInt(86401)}

Texts == {<<>>, <<SP, SP>>, <<"a">>, <<SP, "a", "b", SP>>}

LimitValues == {Omitted, PyInt(0), PyInt(1), PyInt(100), PyInt(101)}
OffsetValues == {Omitted, PyInt(0 - 1), PyInt(0), PyInt(5)}
TimeValues == {Omitted, PyInt(7)}

NewSessionConfigs == {"valid", "malformed", "rejected", "rejected_schema"}

\* the errors the upstream client can raise
ErrTexts == {<<"a">>, <<"b">>}
ErrStatusCodes == {404, 422, 503}

TypedErrors ==
    {[cls |-> c, text |-> t, has_status_code |-> TRUE, status_code |-> sc,
      has_details |-> hd, details |-> IF hd THEN {"field"} ELSE {}] :
        c \in TypedClasses, t \in ErrTexts, sc \in ErrStatusCodes, hd \in BOOLEAN}
    \cup
    {[cls |-> c, text |-> t, has_status_code |-> FALSE, status_code |-> 0,
      has_details |-> hd, details |-> IF hd THEN {"field"} ELSE {}] :
        c \in TypedClasses, t \in ErrTexts, hd \in BOOLEAN}

UntypedErrors ==
    {[cls |-> c, text |-> t, has_status_code |-> FALSE, status_code |-> 0,
      has_details |-> FALSE, details |-> {}] :
        c \in ErrorClasses \ TypedClasses, t \in ErrTexts}

Errors == TypedErrors \cup UntypedErrors

\* all sequences over S of length at most n
RECURSIVE SeqsUpTo(_, _)
SeqsUpTo(S, n) ==
    IF n = 0 THEN {<<>>}
    ELSE LET shorter == SeqsUpTo(S, n - 1)
         IN  shorter \cup {Append(q, x) : q \in {z \in shorter : Len(z) = n - 1}, x \in S}

\* a dict with the given optional entries: one choice per key, "absent" drops it
Absent == [t |-> "absent"]
DictOf(choice) ==
    [k \in {key \in DOMAIN choice : choice[key] # Absent} |-> choice[k]]

ClosePayloads ==
    {DictOf([status |-> v]) : v \in {Absent, PyStr(Lit("closed")), PyNone}}

KeepAlivePayloads ==
    {DictOf([code |-> c, message |-> m]) :
        c \in {Absent, PyInt(7), PyInt(0 - 1)},
        m \in {Absent, PyStr(<<SP, "a", SP>>), PyStr(<<SP>>), PyStr(<<>>)}}

TokenPayloads ==
    {DictOf([data |-> d, error |-> er]) :
        d \in {Absent, PyNone, [t |-> "dict", d |-> EmptyDict],
               [t |-> "dict", d |-> DictOf([token |-> PyStr(<<"a", "b">>)])],
               [t |-> "dict", d |-> DictOf([token |-> PyNone])]},
        er \in {Absent, PyNone, PyDict({"code"})}}

InterruptPayloads == {EmptyDict}

AvatarEntries ==
    {DictOf([avatar_id |-> PyStr(<<"a">>), created_at |-> PyInt(1),
             is_public |-> PyBool(FALSE), status |-> PyStr(<<SP, "a", "b", SP>>)]),
     DictOf([avatar_id |-> PyStr(<<"b">>), created_at |-> PyInt(2),
             is_public |-> Absent, status |-> Absent]),
     DictOf([avatar_id |-> PyStr(<<>>), created_at |-> PyInt(1),
             is_public |-> Absent, status |-> PyStr(<<"A">>)]),
     DictOf([avatar_id |-> PyStr(<<"a">>), created_at |-> PyInt(1),
             is_public |-> Absent, status |-> PyStr(<<SP>>)]),
     DictOf([avatar_id |-> Absent, created_at |-> PyInt(1),
             is_public |-> Absent, status |-> Absent])}

ListHeads ==
    {[code |-> Absent, message |-> Absent],
     [code |-> PyInt(0), message |-> PyStr(<<"a", SP>>)],
     [code |-> PyInt(0 - 1), message |-> PyStr(<<"a">>)]}

AvatarPayloads ==
    {DictOf([code |-> h.code, message |-> h.message, data |-> [t |-> "list", l |-> l]]) :
        h \in ListHeads, l \in SeqsUpTo(AvatarEntries, MaxEntries)}
    \cup {EmptyDict}

SessionEntries ==
    {DictOf([session_id |-> PyStr(<<"a">>), created_at |-> PyInt(1),
             status |-> PyStr(<<SP, "a", "b", SP>>)]),
     DictOf([session_id |-> PyStr(<<"b">>), created_at |-> PyInt(2), status |-> Absent]),
     DictOf([session_id |-> PyStr(<<>>), created_at |-> PyInt(1),
             status |-> PyStr(<<SP>>)]),
     DictOf([session_id |-> Absent, created_at |-> PyInt(1), status |-> Absent])}

ActivePayloads ==
    {DictOf([code |-> h.code, message |-> h.message, data |-> [t |-> "list", l |-> l]]) :
        h \in ListHeads, l \in SeqsUpTo(SessionEntries, MaxEntries)}
    \cup {EmptyDict}

HistoryEntries ==
    {DictOf([session_id |-> PyStr(<<"a">>), created_at |-> PyInt(1),
             status |-> PyStr(<<"a", "b">>), duration_seconds |-> PyInt(9),
             ended_at |-> PyInt(3), avatar_id |-> PyStr(<<"b">>)]),
     DictOf([session_id |-> PyStr(<<"b">>), created_at |-> PyInt(2),
             status |-> Absent, duration_seconds |-> Absent,
             ended_at |-> Absent, avatar_id |-> Absent]),
     DictOf([session_id |-> Absent, created_at |-> PyInt(1),
             status |-> Absent, duration_seconds |-> Absent,
             ended_at |-> Absent, avatar_id |-> Absent]),
     DictOf([session_id |-> PyStr(<<"a">>), created_at |-> Absent,
             status |-> Absent, duration_seconds |-> Absent,
             ended_at |-> Absent, avatar_id |-> Absent]),
     DictOf([session_id |-> PyNone, created_at |-> PyInt(1),
             status |-> Absent, duration_seconds |-> Absent,
             ended_at |-> Absent, avatar_id |-> Absent]),
     DictOf([session_id |-> PyStr(<<>>), created_at |-> PyInt(3),
             status |-> PyStr(<<SP>>), duration_seconds |-> Absent,
             ended_at |-> Absent, avatar_id |-> Absent])}

Paginations ==
    {Absent, [t |-> "dict", d |-> EmptyDict],
     [t |-> "dict", d |-> DictOf([total |-> PyInt(7), has_more |-> PyBool(TRUE)])]}

HistoryPayloads ==
    {DictOf([data |-> [t |-> "list", l |-> l], pagination |-> pg]) :
        l \in SeqsUpTo(HistoryEntries, MaxEntries), pg \in Paginations}
    \cup {EmptyDict}

NewSessionPayloads == {[session_id |-> <<"a">>, status |-> Lit("new")]}
TaskPayloads == {[duration_ms |-> 5, task_id |-> <<"b">>]}
StartPayloads == {[status |-> Lit("started")]}

\* ------------------------------------------------------------- dispatch
Handlers == {"close_session", "create_session_token", "interrupt_task", "keep_alive",
             "list_avatars", "list_sessions_active", "list_sessions_history",
             "create_streaming_session", "send_task", "start_streaming_session"}

\* the framework's validation of the handler's declared parameters
Params(req) ==
    CASE req.handler = "close_session" -> close_session_params(req)
      [] req.handler = "create_session_token" -> create_session_token_params(req)
      [] req.handler = "interrupt_task" -> interrupt_task_params(req)
      [] req.handler = "keep_alive" -> keep_alive_params(req)
      [] req.handler = "list_avatars" -> list_avatars_params(req)
      [] req.handler = "list_sessions_active" -> list_sessions_active_params(req)
      [] req.handler = "list_sessions_history" -> list_sessions_history_params(req)
      [] req.handler = "create_streaming_session" -> create_streaming_session_params(req)
      [] req.handler = "send_task" -> send_task_params(req)
      [] req.handler = "start_streaming_session" -> start_streaming_session_params(req)

\* the statements of the try body that run before the upstream call
Prelude(req) ==
    IF req.handler = "create_streaming_session"
    THEN validate_new_session_request(req.config)
    ELSE Ok(req)

\* the arguments of the handler's call of the upstream client
Call(req) ==
    CASE req.handler = "close_session" -> close_session_call(req)
      [] req.handler = "create_session_token" -> create_session_token_call(req)
      [] req.handler = "interrupt_task" -> interrupt_task_call(req)
      [] req.handler = "keep_alive" -> keep_alive_call(req)
      [] req.handler = "list_avatars" -> list_avatars_call(req)
      [] req.handler = "list_sessions_active" -> list_sessions_active_call(req)
      [] req.handler = "list_sessions_history" -> list_sessions_history_call(req)
      [] req.handler = "create_streaming_session" -> create_streaming_session_call(req)
      [] req.handler = "send_task" -> send_task_call(req)
      [] req.handler = "start_streaming_session" -> start_streaming_session_call(req)

\* the statements of the try body that run after the upstream call returned
Body(req, response) ==
    CASE req.handler = "close_session" -> close_session_body(req, response)
      [] req.handler = "create_session_token" -> create_session_token_body(req, response)
      [] req.handler = "interrupt_task" -> interrupt_task_body(req, response)
      [] req.handler = "keep_alive" -> keep_alive_body(req, response)
      [] req.handler = "list_avatars" -> list_avatars_body(req, response)
      [] req.handler = "list_sessions_active" -> list_sessions_active_body(req, response)
      [] req.handler = "list_sessions_history" -> list_sessions_history_body(req, response)
      [] req.handler = "create_streaming_session" ->
             create_streaming_session_body(req, response)
      [] req.handler = "send_task" -> send_task_body(req, response)
      [] req.handler = "start_streaming_session" ->
             start_streaming_session_body(req, response)

\* the except clauses of the handler
Except(req, e) ==
    CASE req.handler = "close_session" -> close_session_except(req, e)
      [] req.handler = "create_session_token" -> create_session_token_except(req, e)
      [] req.handler = "interrupt_task" -> interrupt_task_except(req, e)
      [] req.handler = "keep_alive" -> keep_alive_except(req, e)
      [] req.handler = "list_avatars" -> list_avatars_except(req, e)
      [] req.handler = "list_sessions_active" -> list_sessions_active_except(req, e)
      [] req.handler = "list_sessions_history" -> list_sessions_history_except(req, e)
      [] req.handler = "create_streaming_session" ->
             create_streaming_session_except(req, e)
      [] req.handler = "send_task" -> send_task_except(req, e)
      [] req.handler = "start_streaming_session" ->
             start_streaming_session_except(req, e)

\* the payloads the upstream client can return to the handler
Payloads(h) ==
    CASE h = "close_session" -> ClosePayloads
      [] h = "create_session_token" -> TokenPayloads
      [] h = "interrupt_task" -> InterruptPayloads
      [] h = "keep_alive" -> KeepAlivePayloads
      [] h = "list_avatars" -> AvatarPayloads
      [] h = "list_sessions_active" -> ActivePayloads
      [] h = "list_sessions_history" -> HistoryPayloads
      [] h = "create_streaming_session" -> NewSessionPayloads
      [] h = "send_task" -> TaskPayloads
      [] h = "start_streaming_session" -> StartPayloads

\* ---------------------------------------------------------------- state
VARIABLES
    live,       \* the slots that take requests
    pc,         \* slot -> "idle" | "awaiting" | "done"
    req,        \* slot -> the request being handled
    calls,      \* slot -> the calls the handler made to the upstream client
    outcome,    \* slot -> how the upstream call completed
    caught,     \* slot -> the exception the except clauses received
    responses,  \* slot -> the responses written for the request
    log         \* slot -> the log records written for the request

vars == <<live, pc, req, calls, outcome, caught, responses, log>>

NoReq == [handler |-> "none"]
NoOutcome == [kind |-> "none"]
NoExc == [some |-> FALSE]

InitSlots ==
    /\ pc = [r \in Slots |-> "idle"]
    /\ req = [r \in Slots |-> NoReq]
    /\ calls = [r \in Slots |-> <<>>]
    /\ outcome = [r \in Slots |-> NoOutcome]
    /\ caught = [r \in Slots |-> NoExc]
    /\ responses = [r \in Slots |-> <<>>]
    /\ log = [r \in Slots |-> <<>>]

Init == live = {1} /\ InitSlots

\* a handler keeping the request in a module-level name that a later arrival overwrites:
\* the except clauses see the request of another slot that is in flight
Finish_sharedRequest(r, request, t) ==
    LET others == {s \in live \ {r} : pc[s] = "awaiting"}
        current == IF others = {} THEN request ELSE req[CHOOSE s \in others : TRUE]
        fin == IF t.ok THEN Raise(<<>>, t.resp) ELSE Except(current, t.exc)
    IN  /\ pc' = [pc EXCEPT ![r] = "done"]
        /\ caught' = [caught EXCEPT ![r] = IF t.ok THEN NoExc
                                           ELSE [some |-> TRUE, exc |-> t.exc]]
        /\ responses' = [responses EXCEPT ![r] = Append(@, fin.resp)]
        /\ log' = [log EXCEPT ![r] = @ \o fin.log]

\* the handler ends in its try body (t.ok) or in its except clauses
Finish(r, request, t) ==
    LET fin == IF t.ok THEN Raise(<<>>, t.resp) ELSE Except(request, t.exc)
    IN  /\ pc' = [pc EXCEPT ![r] = "done"]
        /\ caught' = [caught EXCEPT ![r] = IF t.ok THEN NoExc
                                           ELSE [some |-> TRUE, exc |-> t.exc]]
        /\ responses' = [responses EXCEPT ![r] = Append(@, fin.resp)]
        /\ log' = [log EXCEPT ![r] = @ \o fin.log]

\* a request arrives: the framework validates it and the handler runs to its await
Begin(r, request) ==
    /\ r \in live
    /\ pc[r] = "idle"
    /\ req' = [req EXCEPT ![r] = request]
    /\ IF ~Params(request)
       THEN /\ pc' = [pc EXCEPT ![r] = "done"]
            /\ responses' = [responses EXCEPT ![r] = Append(@, RequestValidationError)]
            /\ UNCHANGED <<calls, outcome, caught, log>>
       ELSE IF ~Prelude(request).ok
       THEN /\ Finish(r, request, Prelude(request))
            /\ UNCHANGED <<calls, outcome>>
       ELSE /\ pc' = [pc EXCEPT ![r] = "awaiting"]
            /\ calls' = [calls EXCEPT ![r] = Append(@, Call(request))]
            /\ UNCHANGED <<outcome, caught, responses, log>>
    /\ UNCHANGED live

close_session(r) ==
    \E sid \in PathSessionIds :
        Begin(r, [handler |-> "close_session", session_id |-> sid])

create_session_token(r) ==
    \E sid \in PathSessionIds, ex \in ExpiresInValues :
        Begin(r, [handler |-> "create_session_token", session_id |-> sid,
                  expires_in |-> ex])

interrupt_task(r) ==
    \E sid \in PathSessionIds :
        Begin(r, [handler |-> "interrupt_task", session_id |-> sid])

keep_alive(r) ==
    \E sid \in PathSessionIds :
        Begin(r, [handler |-> "keep_alive", session_id |-> sid])

list_avatars(r) == Begin(r, [handler |-> "list_avatars"])

list_sessions_active(r) == Begin(r, [handler |-> "list_sessions_active"])

list_sessions_history(r) ==
    \E st \in TimeValues, et \in TimeValues, li \in LimitValues, off \in OffsetValues :
        Begin(r, [handler |-> "list_sessions_history", start_time |-> st,
                  end_time |-> et, limit |-> li, offset |-> off])

create_streaming_session(r) ==
    \E cfg \in NewSessionConfigs :
        Begin(r, [handler |-> "create_streaming_session", config |-> cfg])

send_task(r) ==
    \E sid \in BodySessionIds, tx \in Texts,
       tm \in TaskMode \cup {"omitted", "bogus"}, tt \in TaskType \cup {"omitted", "bogus"} :
        Begin(r, [handler |-> "send_task", session_id |-> sid, text |-> tx,
                  task_mode |-> tm, task_type |-> tt])

start_streaming_session(r) ==
    \E sid \in BodySessionIds :
        Begin(r, [handler |-> "start_streaming_session", session_id |-> sid])

\* the awaited upstream call returns a payload and the handler resumes
UpstreamReturns(r) ==
    /\ pc[r] = "awaiting"
    /\ \E p \in Payloads(req[r].handler) :
        /\ outcome' = [outcome EXCEPT ![r] = [kind |-> "return", payload |-> p]]
        /\ Finish(r, req[r], Body(req[r], p))
    /\ UNCHANGED <<live, req, calls>>

\* a handler that calls the upstream client a second time after the first call raised
UpstreamRaises_retry(r) ==
    /\ pc[r] = "awaiting"
    /\ \E e \in Errors :
        IF Len(calls[r]) < 2
        THEN /\ calls' = [calls EXCEPT ![r] = Append(@, Call(req[r]))]
             /\ UNCHANGED <<live, pc, req, outcome, caught, responses, log>>
        ELSE /\ outcome' = [outcome EXCEPT ![r] = [kind |-> "raise", exc |-> e]]
             /\ Finish(r, req[r], Err(e))
             /\ UNCHANGED <<live, req, calls>>

\* the awaited upstream call raises and the handler resumes in its except clauses
UpstreamRaises(r) ==
    /\ pc[r] = "awaiting"
    /\ \E e \in Errors :
        /\ outcome' = [outcome EXCEPT ![r] = [kind |-> "raise", exc |-> e]]
        /\ Finish(r, req[r], Err(e))
    /\ UNCHANGED <<live, req, calls>>

\* the response is sent and the slot takes the next request
NextRequest(r) ==
    /\ pc[r] = "done"
    /\ pc' = [pc EXCEPT ![r] = "idle"]
    /\ req' = [req EXCEPT ![r] = NoReq]
    /\ calls' = [calls EXCEPT ![r] = <<>>]
    /\ outcome' = [outcome EXCEPT ![r] = NoOutcome]
    /\ caught' = [caught EXCEPT ![r] = NoExc]
    /\ responses' = [responses EXCEPT ![r] = <<>>]
    /\ log' = [log EXCEPT ![r] = <<>>]
    /\ UNCHANGED live

Next ==
    \E r \in Slots :
        \/ close_session(r)
        \/ create_session_token(r)
        \/ interrupt_task(r)
        \/ keep_alive(r)
        \/ list_avatars(r)
        \/ list_sessions_active(r)
        \/ list_sessions_history(r)
        \/ create_streaming_session(r)
        \/ send_task(r)
        \/ start_streaming_session(r)
        \/ UpstreamReturns(r)
        \/ UpstreamRaises(r)
        \/ NextRequest(r)

Spec == Init /\ [][Next]_vars

\* ----------------------------------------------------- concurrent requests
\* Every slot takes requests, so handlers are suspended at their upstream call in any
\* order. The handlers are those of Spec, with fewer inputs and upstream results.
ConcSessionIds == {<<"a">>, <<SP, "a", SP>>}

ConcPayloads ==
    {EmptyDict,
     DictOf([code |-> PyInt(7), message |-> PyStr(<<SP, "a", SP>>)]),
     DictOf([data |-> [t |-> "list", l |->
                 <<DictOf([session_id |-> PyStr(<<"b">>), created_at |-> PyInt(2),
                           status |-> Absent, duration_seconds |-> Absent,
                           ended_at |-> Absent, avatar_id |-> Absent])>>],
             pagination |->
                 [t |-> "dict", d |-> DictOf([total |-> PyInt(7),
                                              has_more |-> PyBool(TRUE)])]])}

ConcErrors ==
    {[cls |-> "SessionNotFoundError", text |-> <<"a">>, has_status_code |-> FALSE,
      status_code |-> 0, has_details |-> FALSE, details |-> {}],
     [cls |-> "ServerError", text |-> <<"b">>, has_status_code |-> TRUE,
      status_code |-> 503, has_details |-> FALSE, details |-> {}],
     [cls |-> "RuntimeError", text |-> <<"a">>, has_status_code |-> FALSE,
      status_code |-> 0, has_details |-> FALSE, details |-> {}]}

InitConc == live = Slots /\ InitSlots

keep_alive_conc(r) ==
    /\ keep_alive(r)
    /\ req'[r].session_id \in ConcSessionIds

list_sessions_history_conc(r) ==
    /\ list_sessions_history(r)
    /\ req'[r].start_time = Omitted
    /\ req'[r].end_time = Omitted
    /\ <<req'[r].limit, req'[r].offset>> \in
           {<<Omitted, Omitted>>, <<PyInt(1), PyInt(5)>>, <<PyInt(0), Omitted>>}

start_streaming_session_conc(r) ==
    /\ start_streaming_session(r)
    /\ req'[r].session_id \in ConcSessionIds

UpstreamReturns_conc(r) ==
    /\ UpstreamReturns(r)
    /\ outcome'[r].payload \in ConcPayloads \cup StartPayloads

UpstreamRaises_conc(r) ==
    /\ UpstreamRaises(r)
    /\ outcome'[r].exc \in ConcErrors

NextConc ==
    \E r \in Slots :
        \/ keep_alive_conc(r)
        \/ list_sessions_history_conc(r)
        \/ start_streaming_session_conc(r)
        \/ UpstreamReturns_conc(r)
        \/ UpstreamRaises_conc(r)
        \/ NextRequest(r)

SpecConc == InitConc /\ [][NextConc]_vars

\* ------------------------------------------------ knowledge-base client
\* HeyGenStreamingClient's knowledge-base operations, as their test drives them: the
\* operation awaits the transport (_request), which returns a payload or raises a
\* typed error. Here calls[r] holds the _request call and responses[r] what the
\* caller of the operation gets.
KBOperations == {"get_knowledge_base", "create_knowledge_base", "list_knowledge_bases"}

KBIds == {<<"a">>, <<"b">>, <<>>}
KBNames == {<<>>, <<"a">>}

KBErrorClasses ==
    {"KnowledgeBaseNotFoundError", "KnowledgeBaseValidationError", "DocumentError"}

KBStatusCodes == {400, 404, 500}

\* exception_cls(message=error_message, status_code=status_code)
KBErrors ==
    {[cls |-> c, text |-> t, status_code |-> sc] :
        c \in KBErrorClasses, t \in ErrTexts, sc \in KBStatusCodes}

KBPayloads ==
    {DictOf([knowledge_base_id |-> PyStr(<<"a">>)]), EmptyDict}

\* the transport call an operation makes
KBRequest(request) == [method |-> "_request", operation |-> request.handler]

\* the operation catching a transport error and raising a generic API error in its place
KBResult_wrapped(request, oc) ==
    IF oc.kind = "raise"
    THEN [kind |-> "raised",
          exc |-> [cls |-> "HeyGenAPIError", text |-> oc.exc.text, status_code |-> 500]]
    ELSE [kind |-> "returned", value |-> oc.payload]

\* what the caller of the operation gets once _request completed as oc: the payload,
\* or the error itself, which the operation lets through
KBResult(request, oc) ==
    IF oc.kind = "raise"
    THEN [kind |-> "raised", exc |-> oc.exc]
    ELSE [kind |-> "returned", value |-> oc.payload]

InitKB == live = {1} /\ InitSlots

KBBegin(r, request) ==
    /\ r \in live
    /\ pc[r] = "idle"
    /\ req' = [req EXCEPT ![r] = request]
    /\ pc' = [pc EXCEPT ![r] = "awaiting"]
    /\ calls' = [calls EXCEPT ![r] = Append(@, KBRequest(request))]
    /\ UNCHANGED <<live, outcome, caught, responses, log>>

get_knowledge_base(r) ==
    \E id \in KBIds :
        KBBegin(r, [handler |-> "get_knowledge_base", knowledge_base_id |-> id])

create_knowledge_base(r) ==
    \E name \in KBNames :
        KBBegin(r, [handler |-> "create_knowledge_base", name |-> name])

list_knowledge_bases(r) == KBBegin(r, [handler |-> "list_knowledge_bases"])

KBComplete(r, oc) ==
    /\ pc[r] = "awaiting"
    /\ outcome' = [outcome EXCEPT ![r] = oc]
    /\ responses' = [responses EXCEPT ![r] = Append(@, KBResult(req[r], oc))]
    /\ pc' = [pc EXCEPT ![r] = "done"]
    /\ UNCHANGED <<live, req, calls, caught, log>>

\* _request returns a payload
mock_response(r) ==
    \E p \in KBPayloads : KBComplete(r, [kind |-> "return", payload |-> p])

\* _request raises a typed error
mock_request(r) ==
    \E e \in KBErrors : KBComplete(r, [kind |-> "raise", exc |-> e])

NextKB ==
    \E r \in Slots :
        \/ get_knowledge_base(r)
        \/ create_knowledge_base(r)
        \/ list_knowledge_bases(r)
        \/ mock_response(r)
        \/ mock_request(r)
        \/ NextRequest(r)

SpecKB == InitKB /\ [][NextKB]_vars

\* ---------------------------------------------------------------- claims
\* the request of slot r ended after its upstream call raised an error of one of the classes
UpstreamRaised(r, classes) ==
    /\ pc[r] = "done"
    /\ outcome[r].kind = "raise"
    /\ outcome[r].exc.cls \in classes

\* the one response of a finished request
Response(r) == responses[r][1]

\* the text an error body shows as its message
MessageOf(body) == IF body.t = "str" THEN body.s ELSE body.message.s

\* C1: in every handler an Authentication error of the upstream client is answered
\* with status 401 and a RateLimit error with status 429.
C1_AuthAndRateLimitStatus ==
    \A r \in Slots :
        /\ UpstreamRaised(r, {"AuthenticationError"}) =>
              /\ Len(responses[r]) = 1
              /\ Response(r).kind = "error"
              /\ Response(r).status_code = 401
        /\ UpstreamRaised(r, {"RateLimitError"}) =>
              /\ Len(responses[r]) = 1
              /\ Response(r).kind = "error"
              /\ Response(r).status_code = 429

C1_Witness ==
    \E r \in Slots :
        /\ UpstreamRaised(r, {"RateLimitError"})
        /\ req[r].handler = "interrupt_task"
        /\ outcome[r].exc.has_status_code /\ outcome[r].exc.status_code = 503
        /\ Response(r).status_code = 429

\* C2: in every handler a Validation error (HeyGenValidationError) of the upstream
\* client is answered with status 400.
C2_ValidationStatus ==
    \A r \in Slots :
        UpstreamRaised(r, {"HeyGenValidationError"}) =>
            /\ Len(responses[r]) = 1
            /\ Response(r).kind = "error"
            /\ Response(r).status_code = 400

\* C3: in every handler a not-found error of the upstream client, SessionNotFound or
\* generic NotFound, is answered with status 404.
C3_NotFoundStatus ==
    \A r \in Slots :
        UpstreamRaised(r, {"SessionNotFoundError", "NotFoundError"}) =>
            /\ Len(responses[r]) = 1
            /\ Response(r).kind = "error"
            /\ Response(r).status_code = 404

\* C4: in every handler a Server or GenericAPI error of the upstream client is answered
\* with the status code the error carries, and with 500 when it carries none.
C4_ServerStatus ==
    \A r \in Slots :
        UpstreamRaised(r, {"ServerError", "HeyGenAPIError"}) =>
            /\ Len(responses[r]) = 1
            /\ Response(r).kind = "error"
            /\ Response(r).status_code =
                 IF outcome[r].exc.has_status_code THEN outcome[r].exc.status_code
                 ELSE 500

C4_Witness ==
    \E r \in Slots :
        /\ UpstreamRaised(r, {"ServerError"})
        /\ req[r].handler = "list_avatars"
        /\ outcome[r].exc.has_status_code /\ outcome[r].exc.status_code = 503
        /\ Response(r).status_code = 503

\* the exception the handler of slot r had to map lies outside the error taxonomy:
\* no typed error of the upstream client and no schema validation failure of
\* create_streaming_session's request
Unclassified(r) ==
    /\ pc[r] = "done"
    /\ caught[r].some
    /\ caught[r].exc.cls \notin TypedClasses
    /\ ~(req[r].handler = "create_streaming_session"
         /\ caught[r].exc.cls = "ValidationError")

\* the fixed body of the handler's generic 500
GenericBody(h) ==
    IF h \in {"close_session", "create_session_token", "interrupt_task", "keep_alive"}
    THEN [t |-> "str", s |-> <<"An unexpected error occurred">>]
    ELSE [t |-> "dict", message |-> [t |-> "str", s |-> <<"Internal server error">>]]

C6_MessageHasErrorText ==
    \A r \in Slots :
        UpstreamRaised(r, TypedClasses) =>
            /\ Len(responses[r]) = 1
            /\ Response(r).kind = "error"
            /\ Contains(MessageOf(Response(r).body), outcome[r].exc.text)

\* C7: every error response a handler produces has a mapping as its detail, with a
\* string message and, when present, a mapping as details.
C7_ErrorBodyShape ==
    \A r \in Slots :
        \A i \in 1..Len(responses[r]) :
            (responses[r][i].src = "handler" /\ responses[r][i].kind = "error") =>
                /\ responses[r][i].body.t = "dict"
                /\ responses[r][i].body.message.t = "str"
                /\ "details" \in DOMAIN responses[r][i].body =>
                       responses[r][i].body.details.t = "dict"

\* C8: once the upstream call completed, the request has exactly one outcome: one
\* success response if the call returned and the payload was accepted, else one error
\* response; before that it has none, and no failure leaves the handler unmapped.
C8_ExactlyOneOutcome ==
    \A r \in Slots :
        /\ pc[r] = "awaiting" => responses[r] = <<>>
        /\ (pc[r] = "done" /\ outcome[r].kind # "none") =>
              /\ Len(responses[r]) = 1
              /\ Response(r).src = "handler"
              /\ Response(r).kind \in {"success", "error"}
              /\ Response(r).kind = "success" =>
                     (outcome[r].kind = "return" /\ ~caught[r].some)
              /\ Response(r).kind = "error" => caught[r].some

C8_Witness ==
    \E r \in Slots :
        /\ pc[r] = "done"
        /\ outcome[r].kind = "return"
        /\ caught[r].some
        /\ req[r].handler = "list_sessions_history"
        /\ Len(responses[r]) = 1
        /\ Response(r).kind = "error"

\* the request fails the validation of its endpoint
FailsLocalValidation(request) ==
    \/ /\ request.handler = "send_task"
       /\ \/ Strip(request.text) = <<>>
          \/ request.task_mode \notin {"sync", "async", "omitted"}
          \/ request.task_type \notin {"repeat", "chat", "omitted"}
    \/ /\ request.handler = "start_streaming_session"
       /\ request.session_id = <<>>
    \/ /\ request.handler = "list_sessions_history"
       /\ \/ (request.limit.t = "int" /\ (request.limit.i < 1 \/ request.limit.i > 100))
          \/ (request.offset.t = "int" /\ request.offset.i < 0)
    \/ /\ request.handler = "create_streaming_session"
       /\ request.config \in {"malformed", "rejected", "rejected_schema"}
    \/ /\ request.handler = "create_session_token"
       /\ request.expires_in.t = "int"
       /\ (request.expires_in.i < 60 \/ request.expires_in.i > 86400)
    \/ /\ "session_id" \in DOMAIN request
       /\ Strip(request.session_id) = <<>>

\* C9: a request that fails local validation never reaches the upstream client.
C9_NoCallAfterRejection ==
    \A r \in Slots :
        (req[r] # NoReq /\ FailsLocalValidation(req[r])) => calls[r] = <<>>

\* C10: close, keep-alive, interrupt and create-token forward the trimmed session_id
\* and forward nothing when the session_id is empty after trimming.
C10_TrimmedSessionId ==
    \A r \in Slots :
        req[r].handler \in {"close_session", "keep_alive", "interrupt_task",
                            "create_session_token"} =>
            /\ Strip(req[r].session_id) = <<>> => calls[r] = <<>>
            /\ \A i \in 1..Len(calls[r]) :
                   calls[r][i].session_id = Strip(req[r].session_id)

\* C11: create_session_token rejects an expires_in below 60 or above 86400 with a 422
\* and does not forward it; 60 and 86400 are forwarded unchanged and an omitted
\* expires_in is forwarded as 3600.
C11_ExpiresInBounds ==
    \A r \in Slots :
        (req[r].handler = "create_session_token" /\ pc[r] # "idle") =>
            IF req[r].expires_in.t = "omitted"
            THEN Len(calls[r]) = 1 /\ calls[r][1].expires_in = 3600
            ELSE IF req[r].expires_in.i < 60 \/ req[r].expires_in.i > 86400
            THEN /\ calls[r] = <<>>
                 /\ Len(responses[r]) = 1
                 /\ Response(r).kind = "error"
                 /\ Response(r).status_code = 422
            ELSE Len(calls[r]) = 1 /\ calls[r][1].expires_in = req[r].expires_in.i

\* C12: send_task rejects a text that is empty after trimming, accepts any other text
\* and forwards the trimmed text to the upstream client.
C12_TextTrimmed ==
    \A r \in Slots :
        (req[r].handler = "send_task" /\ pc[r] # "idle") =>
            IF Strip(req[r].text) = <<>>
            THEN /\ calls[r] = <<>>
                 /\ pc[r] = "done"
                 /\ Len(responses[r]) = 1
                 /\ Response(r).kind = "error"
                 /\ Response(r).status_code = 422
            ELSE (req[r].task_mode # "bogus" /\ req[r].task_type # "bogus") =>
                    /\ Len(calls[r]) = 1
                    /\ calls[r][1].text = Strip(req[r].text)
                    /\ calls[r][1].text # <<>>
                    /\ Head(calls[r][1].text) # SP
                    /\ calls[r][1].text[Len(calls[r][1].text)] # SP

C12_Witness ==
    \E r \in Slots :
        /\ req[r].handler = "send_task"
        /\ req[r].text = <<SP, "a", "b", SP>>
        /\ pc[r] = "awaiting"
        /\ calls[r][1].text = <<"a", "b">>

\* C13: list_sessions_history answers a limit outside [1,100] or an offset below 0 with
\* a 422 and makes no upstream call; an omitted limit is 10 and an omitted offset is 0;
\* every accepted limit and offset is forwarded unchanged.
C13_LimitOffset ==
    \A r \in Slots :
        (req[r].handler = "list_sessions_history" /\ pc[r] # "idle") =>
            LET limit == IF req[r].limit.t = "omitted" THEN 10 ELSE req[r].limit.i
                offset == IF req[r].offset.t = "omitted" THEN 0 ELSE req[r].offset.i
            IN  IF limit < 1 \/ limit > 100 \/ offset < 0
                THEN /\ calls[r] = <<>>
                     /\ pc[r] = "done"
                     /\ Len(responses[r]) = 1
                     /\ Response(r).kind = "error"
                     /\ Response(r).status_code = 422
                ELSE /\ Len(calls[r]) = 1
                     /\ calls[r][1].limit = limit
                     /\ calls[r][1].offset = offset

C13_Witness ==
    \E r \in Slots :
        /\ req[r].handler = "list_sessions_history"
        /\ req[r].limit = Omitted
        /\ req[r].offset = PyInt(5)
        /\ pc[r] = "awaiting"
        /\ calls[r][1].limit = 10
        /\ calls[r][1].offset = 5

\* the request of slot r ended after the upstream call of handler h returned
UpstreamReturned(r, h) ==
    /\ pc[r] = "done"
    /\ req[r].handler = h
    /\ outcome[r].kind = "return"

\* the entries of the `data` list of a returned payload
RawData(p) == IF "data" \in DOMAIN p THEN p["data"].l ELSE <<>>

\* the entries of a history list that have a session_id and a created_at
WithBothKeys(l) ==
    LET Both(s) == {"session_id", "created_at"} \subseteq DOMAIN s
    IN  SelectSeq(l, Both)

\* every entry that has both keys has a string session_id and an integer created_at
HistoryEntriesWellTyped(l) ==
    \A i \in 1..Len(l) :
        {"session_id", "created_at"} \subseteq DOMAIN l[i] =>
            (l[i]["session_id"].t = "str" /\ l[i]["created_at"].t = "int")

Succeeded(r, h) ==
    /\ pc[r] = "done"
    /\ req[r].handler = h
    /\ Len(responses[r]) = 1
    /\ Response(r).kind = "success"

\* C15: in every success response of list_sessions_active the status of every entry
\* is one of new, connecting, connected (the enumeration SessionInfo declares), whether
\* the status came from upstream or from the default.
C15_StatusInEnumeration ==
    \A r \in Slots :
        Succeeded(r, "list_sessions_active") =>
            \A i \in 1..Len(Response(r).body.data) :
                Response(r).body.data[i].status \in
                    {Lit("new"), Lit("connecting"), Lit("connected")}

\* C16: in every success response of list_avatars, list_sessions_active and
\* list_sessions_history the identity field of every entry (avatar_id, session_id) is
\* a non-empty string.
C16_IdentityNonEmpty ==
    \A r \in Slots :
        /\ Succeeded(r, "list_avatars") =>
               \A i \in 1..Len(Response(r).body.data) :
                   Response(r).body.data[i].avatar_id # <<>>
        /\ (Succeeded(r, "list_sessions_active") \/ Succeeded(r, "list_sessions_history")) =>
               \A i \in 1..Len(Response(r).body.data) :
                   Response(r).body.data[i].session_id # <<>>

\* C17: in a success response of list_avatars and of list_sessions_active the status
\* of every entry is the upstream status stripped of surrounding whitespace and
\* upper-cased, and normalizing it again leaves it unchanged.
C17_StatusNormalized ==
    \A r \in Slots :
        (Succeeded(r, "list_avatars") \/ Succeeded(r, "list_sessions_active")) =>
            LET raw == RawData(outcome[r].payload)
                data == Response(r).body.data
            IN  /\ Len(data) = Len(raw)
                /\ \A i \in 1..Len(raw) :
                       /\ "status" \in DOMAIN raw[i] =>
                              data[i].status = Upper(Strip(raw[i]["status"].s))
                       /\ Upper(Strip(data[i].status)) = data[i].status

\* some entry of the upstream list l has a status that is empty after stripping
HasBlankStatus(l) ==
    \E i \in 1..Len(l) :
        /\ "status" \in DOMAIN l[i]
        /\ l[i]["status"].t = "str"
        /\ Strip(l[i]["status"].s) = <<>>

\* C18: when an upstream avatar or session status is empty after trimming, the request
\* ends with a Validation failure: an error response with status 400 or 422.
C18_BlankStatusRejected ==
    \A r \in Slots :
        (/\ UpstreamReturned(r, "list_avatars") \/ UpstreamReturned(r, "list_sessions_active")
         /\ HasBlankStatus(RawData(outcome[r].payload))) =>
            /\ Len(responses[r]) = 1
            /\ Response(r).kind = "error"
            /\ Response(r).status_code \in {HTTP_400_BAD_REQUEST, HTTP_422_UNPROCESSABLE_ENTITY}

\* the response string v is the upstream string of key in d up to trimming and case,
\* or the default when upstream omitted the key
StrField(d, key, default, v) ==
    IF key \in DOMAIN d THEN Upper(Strip(v)) = Upper(Strip(d[key].s)) ELSE v = default

IntField(d, key, default, v) ==
    IF key \in DOMAIN d THEN v = d[key].i ELSE v = default

BoolField(d, key, default, v) ==
    IF key \in DOMAIN d THEN v = d[key].b ELSE v = default

AvatarsNormalized(r) ==
    Succeeded(r, "list_avatars") =>
        LET p == outcome[r].payload
            raw == RawData(p)
            body == Response(r).body
        IN  /\ DOMAIN body = {"code", "message", "data"}
            /\ IntField(p, "code", 100, body.code)
            /\ StrField(p, "message", Lit("Success"), body.message)
            /\ Len(body.data) = Len(raw)
            /\ \A i \in 1..Len(raw) :
                   /\ DOMAIN body.data[i] = {"avatar_id", "created_at", "is_public", "status"}
                   /\ body.data[i].avatar_id = raw[i]["avatar_id"].s
                   /\ body.data[i].created_at = raw[i]["created_at"].i
                   /\ BoolField(raw[i], "is_public", TRUE, body.data[i].is_public)
                   /\ StrField(raw[i], "status", Lit("ACTIVE"), body.data[i].status)

ActiveNormalized(r) ==
    Succeeded(r, "list_sessions_active") =>
        LET p == outcome[r].payload
            raw == RawData(p)
            body == Response(r).body
        IN  /\ DOMAIN body = {"code", "message", "data"}
            /\ IntField(p, "code", 100, body.code)
            /\ StrField(p, "message", Lit("Success"), body.message)
            /\ Len(body.data) = Len(raw)
            /\ \A i \in 1..Len(raw) :
                   /\ DOMAIN body.data[i] = {"session_id", "created_at", "status"}
                   /\ body.data[i].session_id = raw[i]["session_id"].s
                   /\ body.data[i].created_at = raw[i]["created_at"].i
                   /\ StrField(raw[i], "status", Lit("ACTIVE"), body.data[i].status)

HistoryNormalized(r) ==
    Succeeded(r, "list_sessions_history") =>
        LET p == outcome[r].payload
            kept == WithBothKeys(RawData(p))
            body == Response(r).body
        IN  /\ DOMAIN body = {"code", "message", "data", "pagination"}
            /\ IntField(p, "code", 100, body.code)
            /\ StrField(p, "message", Lit("Success"), body.message)
            /\ Len(body.data) = Len(kept)
            /\ \A i \in 1..Len(kept) :
                   /\ body.data[i].session_id = kept[i]["session_id"].s
                   /\ body.data[i].created_at = kept[i]["created_at"].i
                   /\ StrField(kept[i], "status", Lit("COMPLETED"), body.data[i].status)
                   /\ IntField(kept[i], "duration_seconds", 0,
                               body.data[i].duration_seconds)

CloseNormalized(r) ==
    Succeeded(r, "close_session") =>
        /\ DOMAIN Response(r).body = {"status"}
        /\ StrField(outcome[r].payload, "status", Lit("success"), Response(r).body.status)

KeepAliveNormalized(r) ==
    Succeeded(r, "keep_alive") =>
        /\ DOMAIN Response(r).body = {"code", "message"}
        /\ IntField(outcome[r].payload, "code", 0, Response(r).body.code)
        /\ StrField(outcome[r].payload, "message",
                    Lit("Keep-alive signal sent successfully"), Response(r).body.message)

TokenWithoutError(p) ==
    /\ "data" \in DOMAIN p
    /\ p["data"].t = "dict"
    /\ "token" \in DOMAIN p["data"].d
    /\ p["data"].d["token"].t = "str"
    /\ ("error" \in DOMAIN p => p["error"].t = "none")

\* C20: when the upstream answers create_session_token with {data: {token: T}} and no
\* error, the response has status 201 and the body {token: T, error: null}.
C20_TokenPassedThrough ==
    \A r \in Slots :
        (/\ UpstreamReturned(r, "create_session_token")
         /\ TokenWithoutError(outcome[r].payload)) =>
            /\ Len(responses[r]) = 1
            /\ Response(r).kind = "success"
            /\ Response(r).status_code = 201
            /\ DOMAIN Response(r).body = {"token", "error"}
            /\ Response(r).body.token = outcome[r].payload["data"].d["token"].s
            /\ Response(r).body.error = [t |-> "none"]

C20_Witness ==
    \E r \in Slots :
        /\ UpstreamReturned(r, "create_session_token")
        /\ TokenWithoutError(outcome[r].payload)
        /\ "error" \notin DOMAIN outcome[r].payload
        /\ req[r].expires_in.t = "omitted"
        /\ Response(r).status_code = 201
        /\ Response(r).body.token = <<"a", "b">>

\* C21: no handler retries. The upstream client is called at most once for a request,
\* and once the call raised the request is over: still one call, and one response, an
\* error.
C21_NoRetry ==
    \A r \in Slots :
        /\ Len(calls[r]) <= 1
        /\ outcome[r].kind = "raise" =>
               /\ Len(calls[r]) = 1
               /\ pc[r] = "done"
               /\ Len(responses[r]) = 1
               /\ Response(r).kind = "error"

C21_Witness ==
    \E r \in Slots :
        /\ req[r].handler = "list_sessions_history"
        /\ outcome[r].kind = "raise"
        /\ outcome[r].exc.cls = "ServerError"
        /\ Len(calls[r]) = 1
        /\ Response(r).kind = "error"

\* what a handler answers and logs when it handles the request alone and the upstream
\* call completes as oc
HandledAlone(request, oc) ==
    IF ~Params(request)
    THEN [responses |-> <<RequestValidationError>>, log |-> <<>>]
    ELSE IF ~Prelude(request).ok
    THEN LET fin == Except(request, Prelude(request).exc)
         IN  [responses |-> <<fin.resp>>, log |-> fin.log]
    ELSE IF oc.kind = "none"
    THEN [responses |-> <<>>, log |-> <<>>]
    ELSE LET t == IF oc.kind = "return" THEN Body(request, oc.payload) ELSE Err(oc.exc)
             fin == IF t.ok THEN Raise(<<>>, t.resp) ELSE Except(request, t.exc)
         IN  [responses |-> <<fin.resp>>, log |-> fin.log]

\* C22: handlers share no state across requests. Whatever the other slots are doing,
\* the responses and the log records of a request are those of the same request
\* handled alone with the same upstream result, and its upstream call is its own.
C22_RequestIsolation ==
    \A r \in Slots :
        req[r] # NoReq =>
            /\ responses[r] = HandledAlone(req[r], outcome[r]).responses
            /\ log[r] = HandledAlone(req[r], outcome[r]).log
            /\ \A i \in 1..Len(calls[r]) : calls[r][i] = Call(req[r])

C22_Witness ==
    \E r, s \in Slots :
        /\ r # s
        /\ pc[r] = "awaiting"
        /\ req[r].handler = "keep_alive"
        /\ pc[s] = "done"
        /\ req[s].handler = "start_streaming_session"
        /\ req[s].session_id # req[r].session_id
        /\ outcome[s].kind = "raise"
        /\ outcome[s].exc.cls = "SessionNotFoundError"
        /\ Response(s).status_code = 404

\* the pagination object of a returned history payload, {} when upstream omitted it
RawPagination(p) == IF "pagination" \in DOMAIN p THEN p["pagination"].d ELSE EmptyDict

\* has_more says whether entries remain after the page [offset, offset + limit)
HasMoreConsistent(total, limit, offset, has_more) ==
    has_more <=> (offset + limit < total)

\* C23: in a list_sessions_history success response pagination.total and
\* pagination.has_more are the upstream values, 0 and false when upstream omitted
\* them, whatever entries were dropped from data; when upstream's has_more agrees with
\* its total and the limit and offset it was called with, the response's has_more
\* agrees with the response's total, limit and offset.
C23_PaginationPassedThrough ==
    \A r \in Slots :
        Succeeded(r, "list_sessions_history") =>
            LET pg == RawPagination(outcome[r].payload)
                out == Response(r).body.pagination
            IN  /\ IntField(pg, "total", 0, out.total)
                /\ BoolField(pg, "has_more", FALSE, out.has_more)
                /\ ({"total", "has_more"} \subseteq DOMAIN pg
                    /\ HasMoreConsistent(pg["total"].i, calls[r][1].limit,
                                         calls[r][1].offset, pg["has_more"].b))
                   => HasMoreConsistent(out.total, out.limit, out.offset, out.has_more)

C23_Witness ==
    \E r \in Slots :
        /\ Succeeded(r, "list_sessions_history")
        /\ Len(RawData(outcome[r].payload)) = 2
        /\ Len(Response(r).body.data) = 1
        /\ {"total", "has_more"} \subseteq DOMAIN RawPagination(outcome[r].payload)
        /\ Response(r).body.pagination.total = 7
        /\ Response(r).body.pagination.has_more = TRUE
        /\ Response(r).body.pagination.limit = 1
        /\ Response(r).body.pagination.offset = 5

\* C24: every failure a handler maps is logged: an unclassified one with the stack
\* trace, a Validation, Authentication or RateLimit one at warning severity, a Server or
\* generic API one at error severity, and none is answered without a log record.
C24_FailuresLogged ==
    \A r \in Slots :
        (pc[r] = "done" /\ caught[r].some) =>
            /\ Len(log[r]) >= 1
            /\ Unclassified(r) => \E i \in 1..Len(log[r]) : log[r][i].exc_info
            /\ caught[r].exc.cls \in
                   {"HeyGenValidationError", "AuthenticationError", "RateLimitError"} =>
                   \A i \in 1..Len(log[r]) : log[r][i].level = "warning"
            /\ caught[r].exc.cls \in {"ServerError", "HeyGenAPIError"} =>
                   \A i \in 1..Len(log[r]) : log[r][i].level = "error"

WrongType(d, key, t) == key \in DOMAIN d /\ d[key].t # t

\* key is absent from d or present with a value that is not of type t
MissingOrWrongType(d, key, t) == key \notin DOMAIN d \/ d[key].t # t

\* key is present in d with a string that is empty after stripping
BlankString(d, key) == key \in DOMAIN d /\ d[key].t = "str" /\ Strip(d[key].s) = <<>>

\* the payload p that upstream returned to handler h fails the handler's response model
FailsResponseModel(h, p) ==
    CASE h = "close_session" -> WrongType(p, "status", "str")
      [] h = "create_session_token" ->
            /\ "data" \in DOMAIN p
            /\ p["data"].t = "dict"
            /\ WrongType(p["data"].d, "token", "str")
      [] h = "keep_alive" ->
            \/ ("code" \in DOMAIN p /\ p["code"].t = "int" /\ p["code"].i < 0)
            \/ BlankString(p, "message")
      [] h = "list_avatars" ->
            \/ ("code" \in DOMAIN p /\ p["code"].t = "int" /\ p["code"].i < 0)
            \/ BlankString(p, "message")
            \/ \E i \in 1..Len(RawData(p)) :
                   \/ MissingOrWrongType(RawData(p)[i], "avatar_id", "str")
                   \/ MissingOrWrongType(RawData(p)[i], "created_at", "int")
                   \/ BlankString(RawData(p)[i], "status")
      [] h = "list_sessions_active" ->
            \E i \in 1..Len(RawData(p)) :
                \/ MissingOrWrongType(RawData(p)[i], "session_id", "str")
                \/ MissingOrWrongType(RawData(p)[i], "created_at", "int")
      [] h = "list_sessions_history" ->
            \E i \in 1..Len(RawData(p)) :
                /\ {"session_id", "created_at"} \subseteq DOMAIN RawData(p)[i]
                /\ \/ RawData(p)[i]["session_id"].t # "str"
                   \/ RawData(p)[i]["created_at"].t # "int"
      [] OTHER -> FALSE

\* C26: when the upstream call of close_session, create_session_token, keep_alive,
\* list_avatars, list_sessions_active or list_sessions_history succeeds with a payload
\* that fails the response model, the request ends in the handler's generic 500: no
\* success, no partial list.
C26_InvalidPayloadIsGeneric500 ==
    \A r \in Slots :
        (/\ pc[r] = "done"
         /\ outcome[r].kind = "return"
         /\ FailsResponseModel(req[r].handler, outcome[r].payload)) =>
            /\ Len(responses[r]) = 1
            /\ Response(r).kind = "error"
            /\ Response(r).status_code = 500
            /\ Response(r).body = GenericBody(req[r].handler)

C26_Witness ==
    \E r \in Slots :
        /\ UpstreamReturned(r, "list_sessions_active")
        /\ Len(RawData(outcome[r].payload)) = 2
        /\ "session_id" \in DOMAIN RawData(outcome[r].payload)[1]
        /\ "session_id" \notin DOMAIN RawData(outcome[r].payload)[2]
        /\ Response(r).kind = "error"
        /\ Response(r).status_code = 500

====
